---- MODULE Spec2Model ----
(***************************************************************************)
(* Model of the smtpd server of evidentiq/smtprelay (package smtpd).       *)
(*                                                                         *)
(* Part I  (Spec, FairSpec): the server supervisor of smtpd.go: Serve /    *)
(*   ListenAndServe, the accept loop, the connection limiter, the          *)
(*   per-connection goroutines, Shutdown, Wait, the done channel and the   *)
(*   once-closing listener.  One goroutine calls Serve/ListenAndServe      *)
(*   (sequentially, possibly again after a return), one controlling        *)
(*   goroutine calls Shutdown and Wait, every Serve call starts its own    *)
(*   context watcher, and every accepted connection runs its own task.     *)
(*                                                                         *)
(* Part II (SessSpec): the command dialogue of one session, session.handle *)
(*   and the handlers of the verbs.  Their code is not among the sources   *)
(*   this model was written from; the part follows section 4.3 of the      *)
(*   specification.                                                        *)
(*                                                                         *)
(* Part III (ConnSpec): session.serve of smtpd.go for one connection: the  *)
(*   check of the context, session.welcome, the scanner loop that hands    *)
(*   every line to session.handle, the recovery from a line that is too    *)
(*   long, session.error and session.close.  The lines are dispatched to   *)
(*   the handlers of Part II.                                              *)
(***************************************************************************)
EXTENDS Integers, Sequences, FiniteSets, Bags, TLC

\* ------------------------------------------------------------------ bounds
\* connections that are open at the same time
MaxConns == 2
\* calls of Serve that get as far as storing their listener
MaxServeCalls == 1
\* largest explicitly configured MaxConnections
MaxCap == 1

\* Server.MaxRecipients: recipients an envelope may hold
MaxRecipients == 2

\* Server.MaxMessageSize, counted in lines of the DATA payload
MaxMessageSize == 2

\* complete lines the scanner can hold ahead of the one it returns: what the
\* client sent without waiting for replies
MaxPipelined == 2

\* configureDefaults: MaxConnections 0 becomes 100
DefaultMaxConnections == 100

Calls == 1..MaxServeCalls

\* ------------------------------------------------------------------ state
VARIABLES
    \* Server fields
    inShutdown,      \* srv.inShutdown (atomic.Bool)
    doneChan,        \* srv.doneChan: "nil", "open" or "closed"
    listener,        \* srv.listener: 0 is nil, k is the listener of Serve call k
    waitgrp,         \* srv.waitgrp counter
    MaxConnections,  \* srv.MaxConnections
    \* onceCloseListener of every Serve call
    lnOnce,          \* oc.once has run
    lnCloses,        \* executions of the underlying Listener.Close
    lnCloseErr,      \* oc.closeErr: "nil" or "closeErr"
    \* the goroutine calling Serve / ListenAndServe
    spc,             \* its position
    ncall,           \* listeners stored so far; the running call's is ncall
    serr,            \* error e returned by Accept
    sres,            \* result of the last call that returned
    \* the limiter channel of every Serve call
    limCap,          \* capacity, 0 for a nil channel
    limiter,         \* elements in the channel
    \* the goroutine started by every Serve call that waits for ctx.Done()
    watcher,
    \* the base context
    ctxCancelled,
    \* the controlling goroutine: calls Shutdown(wait) and Wait()
    ctl,
    \* the open connections: a bag of records, one per connection
    conns,
    \* history of the run, read by the properties only
    doneCloses,      \* executions of close(ch) on the done channel
    sdResults,       \* the values of lnerr in the Shutdown calls so far
    cancelAt,        \* "accept" when the context was cancelled while Serve was
                     \* in its accept loop, and then the result of that call
    \* Part II: one session
    cfg,             \* the Server fields the dialogue reads: ForceTLS, TLSConfig
                     \* (set or not), Authenticator (set or not), EnableXCLIENT,
                     \* EnableProxyProtocol, Handler (set or not)
    sess,            \* the session: open, peer.HeloName (set or not), envelope,
                     \* tls, peer.TLS, peer.Username (set or not), peer.Addr
                     \* (rewritten or not)
    last,            \* the last command: verb, code of the reply, callbacks called
    handed,          \* the envelopes the last command handed to the Handler
    at,              \* the position of session.serve: "enter", "scan", "returned"
    scanner,         \* session.scanner: the complete lines it holds that Scan
                     \* has not returned yet
    welcomed,        \* what was sent in place of the banner: "no" nothing yet,
                     \* "banner", "rejected" the error of the connection
                     \* checker, "badproxy" the reply to a bad PROXY line
    errOut           \* the last call of session.error: its argument and the
                     \* lines it wrote

srvVars  == <<inShutdown, doneChan, listener, waitgrp, MaxConnections>>
lnVars   == <<lnOnce, lnCloses, lnCloseErr>>
loopVars == <<spc, ncall, serr, sres>>
limVars  == <<limCap, limiter>>
histVars == <<doneCloses, sdResults, cancelAt>>

sessVars == <<cfg, sess, last, handed, at, scanner, welcomed, errOut>>

\* the variables of Part I
supVars == <<srvVars, lnVars, loopVars, limVars, watcher, ctxCancelled, ctl,
             conns, histVars>>

vars == <<supVars, sessVars>>

\* The connection that Accept of Serve call k returns: st is the position of
\* its task, admitted whether it holds a slot of the limiter, closed whether
\* conn.Close() has run, ev what was written to it.
NewConn(k) == [st |-> "accepted", call |-> k, admitted |-> FALSE,
               closed |-> FALSE, ev |-> {}]

\* the controlling goroutine outside a call; op, wait and res are those of its
\* last call
CtlIdle == [pc |-> "idle", op |-> "none", wait |-> FALSE, res |-> "none"]

\* session.envelope when it is nil, and the envelope MAIL FROM makes
nilEnvelope == [made |-> FALSE, recipients |-> 0]
newEnvelope == [made |-> TRUE, recipients |-> 0]

\* The session made by newSession for a connection; tls is set when the
\* connection is a TLS connection already.
newSession(isTLS) ==
    [open |-> TRUE, HeloName |-> FALSE, envelope |-> nilEnvelope, tls |-> isTLS,
     peerTLS |-> isTLS, Username |-> FALSE, addrRewritten |-> FALSE]

\* no command yet
NoCmd == [verb |-> "none", code |-> 0, called |-> {}]

\* a server with no TLS, no authenticator, no XCLIENT and no PROXY protocol,
\* and with a Handler
PlainCfg == [ForceTLS |-> FALSE, TLSConfig |-> FALSE, Authenticator |-> FALSE,
             EnableXCLIENT |-> FALSE, EnableProxyProtocol |-> FALSE,
             Handler |-> TRUE]

\* The error values of the callbacks.  kind "smtp" is a *textproto.Error with
\* Code code and Msg msg; kind "wrapped" is an error that wraps one, as
\* fmt.Errorf("...: %w", e) makes it; kind "plain" is any other error with the
\* text msg; nil is no error.
nil == [kind |-> "nil", code |-> 0, msg |-> "nil"]

Errors ==
    [kind : {"smtp", "wrapped"}, code : {421, 550}, msg : {"denied", "later"}]
        \cup [kind : {"plain"}, code : {0}, msg : {"denied", "later"}]

\* the named errors of the session: busy and line too long
ErrBusy == [kind |-> "smtp", code |-> 421, msg |-> "busy"]
ErrLineTooLong == [kind |-> "smtp", code |-> 500, msg |-> "line too long"]

\* err.Error(), as the sequence of the words of the text: textproto.Error
\* prints "%03d %s" of Code and Msg, the wrapping error its own words and then
\* the text of the error it wraps.
Error(err) ==
    CASE err.kind = "smtp" -> <<ToString(err.code), err.msg>>
      [] err.kind = "wrapped" -> <<"wrapped:", ToString(err.code), err.msg>>
      [] OTHER -> <<err.msg>>

\* no call of session.error yet
NoErrOut == [err |-> nil, lines |-> <<>>]

\* a session after its banner that has read nothing yet
afterBanner ==
    /\ last = NoCmd
    /\ handed = <<>>
    /\ at = "scan"
    /\ scanner = 0
    /\ welcomed = "banner"
    /\ errOut = NoErrOut

\* the server after construction
SupInit ==
    /\ inShutdown = FALSE
    /\ doneChan = "nil"
    /\ listener = 0
    /\ waitgrp = 0
    /\ MaxConnections \in {-1, 0} \cup (1..MaxCap)
    /\ lnOnce = [k \in Calls |-> FALSE]
    /\ lnCloses = [k \in Calls |-> 0]
    /\ lnCloseErr = [k \in Calls |-> "nil"]
    /\ spc = "idle"
    /\ ncall = 0
    /\ serr = "none"
    /\ sres = "none"
    /\ limCap = [k \in Calls |-> 0]
    /\ limiter = [k \in Calls |-> 0]
    /\ watcher = [k \in Calls |-> "none"]
    /\ ctxCancelled = FALSE
    /\ ctl = CtlIdle
    /\ conns = EmptyBag
    /\ doneCloses = 0
    /\ sdResults = {}
    /\ cancelAt = "none"

\* Part I: the supervisor, with no session dialogue
Init ==
    /\ SupInit
    /\ cfg = PlainCfg
    /\ sess = newSession(FALSE)
    /\ afterBanner

\* ------------------------------------------------------------- helpers
\* the bag conns with connection c replaced by d
Replace(c, d) == (conns (-) SetToBag({c})) (+) SetToBag({d})

\* the number of open connections of Serve call k whose task is in one of the
\* positions sts
NumIn(k, sts) ==
    LET S == {c \in BagToSet(conns) : c.call = k /\ c.st \in sts}
    IN  BagCardinality([c \in S |-> conns[c]])

\* a check that never sees the flag; C7 fails with it
neverShuttingDown == FALSE

\* srv.shuttingDown()
shuttingDown == inShutdown

\* a context whose Done channel never closes; C5 fails with it
ctxNeverDone == FALSE

\* ctx.Done() is closed, ctx.Err() is not nil
ctxDone == ctxCancelled

\* net.Listener.Close of the listener handed to Serve call k: nil when it
\* closes the listener, an error when the listener is closed already
listenerClose(k) == IF lnCloses[k] = 0 THEN "nil" ELSE "closeErr"

\* a Close without the once: the underlying Close runs on every call; C6
\* fails with it
closeEveryTime(k) ==
    /\ lnOnce' = [lnOnce EXCEPT ![k] = TRUE]
    /\ lnCloses' = [lnCloses EXCEPT ![k] = @ + 1]
    /\ lnCloseErr' = [lnCloseErr EXCEPT ![k] = listenerClose(k)]

\* onceCloseListener.Close on the listener of call k: oc.once.Do(oc.close)
\* runs the underlying Close the first time only and keeps its error in
\* closeErr.
onceClose(k) ==
    IF lnOnce[k]
    THEN UNCHANGED lnVars
    ELSE /\ lnOnce' = [lnOnce EXCEPT ![k] = TRUE]
         /\ lnCloses' = [lnCloses EXCEPT ![k] = @ + 1]
         /\ lnCloseErr' = [lnCloseErr EXCEPT ![k] = listenerClose(k)]

\* the underlying listener of call k has been closed
lnClosed(k) == lnCloses[k] > 0

\* getDoneChanLocked: the channel is made on first use
getDoneChanLocked == IF doneChan = "nil" THEN "open" ELSE doneChan

\* closeDoneChanLocked: close the channel unless it is closed already.
\* Yields <<channel, closes executed>>.
closeDoneChanLocked ==
    IF getDoneChanLocked = "closed"
    THEN <<"closed", doneCloses>>
    ELSE <<"closed", doneCloses + 1>>

\* Values a read of srv.listener in Shutdown can yield.  Serve writes the field
\* without holding srv.mu, so the read races with the write and may still see
\* an earlier value of the field; from is the last value whose write is ordered
\* before the read (0, the initial nil, when no write is).
listenerSeen(from) == from..listener

\* Serve is in its accept loop: blocked in Accept, in one of the two selects,
\* or starting a task; not past the first select with an error it returns
InAcceptLoop == spc \in {"accept", "accerr", "backoff", "spawn"}

\* ----------------------------------------------- Serve / ListenAndServe
\* Serve or ListenAndServe returns res.
return(res) ==
    /\ spc' = "ret"
    /\ sres' = res
    /\ cancelAt' = IF cancelAt = "accept" THEN res ELSE cancelAt

\* Serve returns res from its accept loop; the deferred l.Close() runs first.
serveReturn(res) ==
    /\ return(res)
    /\ onceClose(ncall)

\* A call of ListenAndServe (entry "ListenAndServe") or Serve (entry "Serve")
\* and its first statement, the shuttingDown check.
CallServe(entry) ==
    /\ spc \in {"idle", "ret"}
    /\ IF shuttingDown
       THEN /\ spc' = "ret"
            /\ sres' = "ErrServerClosed"
       ELSE /\ ncall < MaxServeCalls
            /\ spc' = IF entry = "ListenAndServe" THEN "listen" ELSE "defaults"
            /\ sres' = "none"
    /\ UNCHANGED <<sessVars, srvVars, lnVars, ncall, serr, limVars, watcher,
                   ctxCancelled, ctl, conns, histVars>>

\* ListenAndServe: lc.Listen, then Serve and its shuttingDown check.
Listen(ok) ==
    /\ spc = "listen"
    /\ IF ~ok
       THEN return("listenErr")
       ELSE IF shuttingDown
       THEN return("ErrServerClosed")
       ELSE /\ spc' = "defaults"
            /\ UNCHANGED <<sres, cancelAt>>
    /\ UNCHANGED <<sessVars, srvVars, lnVars, ncall, serr, limVars, watcher,
                   ctxCancelled, ctl, conns, doneCloses, sdResults>>

\* srv.configureDefaults()
configureDefaults ==
    /\ spc = "defaults"
    /\ MaxConnections' = IF MaxConnections = 0 THEN DefaultMaxConnections
                         ELSE MaxConnections
    /\ spc' = "store"
    /\ UNCHANGED <<sessVars, inShutdown, doneChan, listener, waitgrp, lnVars, ncall,
                   serr, sres, limVars, watcher, ctxCancelled, ctl, conns,
                   histVars>>

\* Serve, lines 193-208: wrap the listener, store it in srv.listener, make the
\* limiter and start the goroutine that waits for ctx.Done().
StoreListener ==
    /\ spc = "store"
    /\ ncall' = ncall + 1
    /\ listener' = ncall + 1
    /\ limCap' = [limCap EXCEPT ![ncall + 1] = IF MaxConnections > 0
                                              THEN MaxConnections ELSE 0]
    /\ watcher' = [watcher EXCEPT ![ncall + 1] = "watch"]
    /\ spc' = "accept"
    /\ UNCHANGED <<sessVars, inShutdown, doneChan, waitgrp, MaxConnections, lnVars,
                   serr, sres, limiter, ctxCancelled, ctl, conns, histVars>>

\* l.Accept() returns a connection.
AcceptConn ==
    /\ spc = "accept"
    /\ ~lnClosed(ncall)
    /\ BagCardinality(conns) < MaxConns
    /\ conns' = conns (+) SetToBag({NewConn(ncall)})
    /\ spc' = "spawn"
    /\ UNCHANGED <<sessVars, srvVars, lnVars, ncall, serr, sres, limVars, watcher,
                   ctxCancelled, ctl, histVars>>

\* l.Accept() returns an error: "closed" once the listener is closed, before
\* that a transient ("temp") or another ("fatal") error.
AcceptError(kind) ==
    /\ spc = "accept"
    /\ IF lnClosed(ncall) THEN kind = "closed" ELSE kind \in {"temp", "fatal"}
    /\ serr' = kind
    /\ spc' = "accerr"
    /\ UNCHANGED <<sessVars, srvVars, lnVars, ncall, sres, limVars, watcher,
                   ctxCancelled, ctl, conns, histVars>>

\* The select after a failed Accept: the done channel, ctx.Done(), or default
\* when neither is ready.  srv.getDoneChan() makes the channel if there is
\* none yet.
AcceptSelect ==
    /\ spc = "accerr"
    /\ doneChan' = getDoneChanLocked
    /\ \/ /\ doneChan = "closed"
          /\ serveReturn("ErrServerClosed")
          /\ serr' = "none"
       \/ /\ ctxDone
          /\ serveReturn("ctxErr")
          /\ serr' = "none"
       \/ /\ doneChan # "closed"
          /\ ~ctxDone
          /\ spc' = "classify"
          /\ UNCHANGED <<serr, sres, lnVars, cancelAt>>
    /\ UNCHANGED <<sessVars, inShutdown, listener, waitgrp, MaxConnections, ncall,
                   limVars, watcher, ctxCancelled, ctl, conns, doneCloses,
                   sdResults>>

\* errors.As(e, &ne) && ne.Temporary(): back off, otherwise return e.
AcceptClassify ==
    /\ spc = "classify"
    /\ IF serr = "temp"
       THEN /\ spc' = "backoff"
            /\ UNCHANGED <<sres, lnVars, cancelAt>>
       ELSE serveReturn("acceptErr")
    /\ serr' = "none"
    /\ UNCHANGED <<sessVars, srvVars, ncall, limVars, watcher, ctxCancelled, ctl,
                   conns, doneCloses, sdResults>>

\* a back-off that gives up: Serve returns the error instead of waiting; C20
\* fails with it
backoffGivesUp ==
    /\ spc = "backoff"
    /\ serveReturn("acceptErr")
    /\ UNCHANGED <<sessVars, srvVars, ncall, serr, limVars, watcher, ctxCancelled,
                   ctl, conns, doneCloses, sdResults>>

\* The select of the back-off: ctx.Done() or the timer of one second.
AcceptBackoff ==
    /\ spc = "backoff"
    /\ \/ /\ ctxDone
          /\ serveReturn("ctxErr")
       \/ /\ spc' = "accept"
          /\ UNCHANGED <<sres, lnVars, cancelAt>>
    /\ UNCHANGED <<sessVars, srvVars, ncall, serr, limVars, watcher, ctxCancelled,
                   ctl, conns, doneCloses, sdResults>>

\* newSession, srv.waitgrp.Add(1) and the go statement of the connection task.
Spawn ==
    /\ spc = "spawn"
    /\ waitgrp' = waitgrp + 1
    /\ conns' = Replace(NewConn(ncall), [NewConn(ncall) EXCEPT !.st = "start"])
    /\ spc' = "accept"
    /\ UNCHANGED <<sessVars, inShutdown, doneChan, listener, MaxConnections, lnVars, ncall,
                   serr, sres, limVars, watcher, ctxCancelled, ctl, histVars>>

\* ------------------------------------------------------ Shutdown and Wait
\* Shutdown, lines 273-278: under srv.mu, close the listener read from
\* srv.listener (seen) if there is one, and close the done channel.  lnerr
\* is the closeErr of that listener, nil without a listener.
shutdownLocked(seen, lnerr) ==
    /\ IF seen # 0 THEN onceClose(seen) ELSE UNCHANGED lnVars
    /\ lnerr = IF seen # 0 THEN lnCloseErr'[seen] ELSE "nil"
    /\ doneChan' = closeDoneChanLocked[1]
    /\ doneCloses' = closeDoneChanLocked[2]
    /\ sdResults' = sdResults \cup {lnerr}

\* a Wait without its check; C8 fails with it
waitCheckPasses == "nil"

\* Wait, lines 291-293: the error when the server is not shutting down
waitCheck == IF ~shuttingDown THEN "ErrNotShutdown" ELSE "nil"

\* The controlling goroutine calls Shutdown(wait): inShutdown.Store(true).
Shutdown(wait) ==
    /\ ctl.pc \in {"idle", "ret"}
    /\ inShutdown' = TRUE
    /\ ctl' = [pc |-> "lock", op |-> "Shutdown", wait |-> wait, res |-> "none"]
    /\ UNCHANGED <<sessVars, doneChan, listener, waitgrp, MaxConnections, lnVars, loopVars,
                   limVars, watcher, ctxCancelled, conns, histVars>>

\* Shutdown of the controlling goroutine: the critical section; then the
\* return of lnerr when wait is false, and the call of srv.Wait() when it is
\* true.
ShutdownClose ==
    /\ ctl.pc = "lock"
    /\ \E seen \in listenerSeen(0), lnerr \in {"nil", "closeErr"} :
          /\ shutdownLocked(seen, lnerr)
          /\ ctl' = [ctl EXCEPT !.res = lnerr,
                                !.pc = IF ctl.wait /\ waitCheck = "nil"
                                       THEN "wgwait" ELSE "ret"]
    /\ UNCHANGED <<sessVars, inShutdown, listener, waitgrp, MaxConnections, loopVars,
                   limVars, watcher, ctxCancelled, conns, cancelAt>>

\* The controlling goroutine calls Wait(): the shuttingDown check.
Wait ==
    /\ ctl.pc \in {"idle", "ret"}
    /\ ctl' = IF waitCheck # "nil"
              THEN [pc |-> "ret", op |-> "Wait", wait |-> FALSE, res |-> waitCheck]
              ELSE [pc |-> "wgwait", op |-> "Wait", wait |-> FALSE, res |-> "none"]
    /\ UNCHANGED <<sessVars, srvVars, lnVars, loopVars, limVars, watcher, ctxCancelled,
                   conns, histVars>>

\* srv.waitgrp.Wait() of the controlling goroutine returns: Wait returns nil,
\* Shutdown(true) returns its lnerr.
WaitGroupWait ==
    /\ ctl.pc = "wgwait"
    /\ waitgrp = 0
    /\ ctl' = [ctl EXCEPT !.pc = "ret",
                          !.res = IF ctl.op = "Wait" THEN "nil" ELSE @]
    /\ UNCHANGED <<sessVars, srvVars, lnVars, loopVars, limVars, watcher, ctxCancelled,
                   conns, histVars>>

\* The base context is cancelled.
CancelCtx ==
    /\ ~ctxCancelled
    /\ ctxCancelled' = TRUE
    /\ cancelAt' = IF InAcceptLoop THEN "accept" ELSE "outside"
    /\ UNCHANGED <<sessVars, srvVars, lnVars, loopVars, limVars, watcher, ctl, conns,
                   doneCloses, sdResults>>

\* The goroutine of Serve call k, lines 205-208: <-ctx.Done(), then
\* Shutdown(true) and its inShutdown.Store(true).
WatcherStart(k) ==
    /\ watcher[k] = "watch"
    /\ ctxDone
    /\ inShutdown' = TRUE
    /\ watcher' = [watcher EXCEPT ![k] = "lock"]
    /\ UNCHANGED <<sessVars, doneChan, listener, waitgrp, MaxConnections, lnVars, loopVars,
                   limVars, ctxCancelled, ctl, conns, histVars>>

\* Shutdown(true) of the goroutine of call k: the critical section and the call
\* of srv.Wait().  The write of srv.listener by call k is ordered before the
\* read by the go statement.
WatcherClose(k) ==
    /\ watcher[k] = "lock"
    /\ \E seen \in listenerSeen(k), lnerr \in {"nil", "closeErr"} :
          shutdownLocked(seen, lnerr)
    /\ watcher' = [watcher EXCEPT ![k] = IF waitCheck = "nil"
                                         THEN "wgwait" ELSE "ret"]
    /\ UNCHANGED <<sessVars, inShutdown, listener, waitgrp, MaxConnections, loopVars,
                   limVars, ctxCancelled, ctl, conns, cancelAt>>

\* srv.waitgrp.Wait() of the goroutine of call k returns, and Shutdown(true).
WatcherDone(k) ==
    /\ watcher[k] = "wgwait"
    /\ waitgrp = 0
    /\ watcher' = [watcher EXCEPT ![k] = "ret"]
    /\ UNCHANGED <<sessVars, srvVars, lnVars, loopVars, limVars, ctxCancelled, ctl, conns,
                   histVars>>

\* ----------------------------------------------------- connection tasks
\* a session.serve without the check of ctx.Err(); C22 fails with it
serveEnterUnchecked(conn) == [conn EXCEPT !.st = "loop", !.ev = @ \cup {"welcome"}]

\* session.serve up to its loop, lines 342-357: with the context cancelled
\* session.reject() and return (the deferred close follows); otherwise
\* session.welcome (the connection checker and the 220 banner or the
\* checker's error reply).
serveEnter(conn) ==
    IF ctxDone
    THEN [conn EXCEPT !.st = "returned", !.closed = TRUE, !.ev = @ \cup {"421"}]
    ELSE [conn EXCEPT !.st = "loop", !.ev = @ \cup {"welcome"}]

\* a reject that welcomes the session and leaves its connection open; C2
\* fails with it
rejectWithBanner(conn) == [conn EXCEPT !.ev = @ \cup {"welcome"}]

\* session.reject(): the busy reply and session.close()
reject(conn) == [conn EXCEPT !.closed = TRUE, !.ev = @ \cup {"421"}]

\* a limiter on which a send always succeeds; C1 fails with it
limiterNeverFull(k) == FALSE

\* the limiter channel of call k is full: a send on it would block
limiterFull(k) == limiter[k] >= limCap[k]

\* The task of connection c, lines 247-260: a non-blocking send on the limiter
\* admits the session, which runs session.serve; when the channel is full
\* session.reject() and the task ends.  Without a limiter the session runs.
TaskStart(c) ==
    /\ c.st = "start"
    /\ IF limCap[c.call] = 0
       THEN /\ conns' = Replace(c, serveEnter(c))
            /\ UNCHANGED limiter
       ELSE IF ~limiterFull(c.call)
       THEN /\ limiter' = [limiter EXCEPT ![c.call] = @ + 1]
            /\ conns' = Replace(c, serveEnter([c EXCEPT !.admitted = TRUE]))
       ELSE /\ conns' = Replace(c, [reject(c) EXCEPT !.st = "rejected"])
            /\ UNCHANGED limiter
    /\ UNCHANGED <<sessVars, srvVars, lnVars, loopVars, limCap, watcher, ctxCancelled, ctl,
                   histVars>>

\* session.serve: a line is scanned and handled by session.handle, which for a
\* DATA command that is accepted calls the delivery handler.
ServeLine(c) ==
    /\ c.st = "loop"
    /\ conns' = Replace(c, [c EXCEPT !.st = "handler"])
    /\ UNCHANGED <<sessVars, srvVars, lnVars, loopVars, limVars, watcher, ctxCancelled, ctl,
                   histVars>>

\* The delivery handler returns.
HandlerReturn(c) ==
    /\ c.st = "handler"
    /\ conns' = Replace(c, [c EXCEPT !.st = "loop"])
    /\ UNCHANGED <<sessVars, srvVars, lnVars, loopVars, limVars, watcher, ctxCancelled, ctl,
                   histVars>>

\* session.serve: the scanner stops (end of input, read deadline, closed
\* connection), serve returns and its deferred session.close() runs.
ServeReturn(c) ==
    /\ c.st = "loop"
    /\ conns' = Replace(c, [c EXCEPT !.st = "returned", !.closed = TRUE])
    /\ UNCHANGED <<sessVars, srvVars, lnVars, loopVars, limVars, watcher, ctxCancelled, ctl,
                   histVars>>

\* a task that ends without the receive from the limiter; C21 fails with it
taskKeepsSlot(c) ==
    /\ c.st = "returned"
    /\ conns' = Replace(c, [c EXCEPT !.st = "exiting", !.admitted = FALSE])
    /\ UNCHANGED <<sessVars, srvVars, lnVars, loopVars, limVars, watcher, ctxCancelled,
                   ctl, histVars>>

\* The task after session.serve: <-limiter when there is a limiter.
TaskRelease(c) ==
    /\ c.st = "returned"
    /\ limiter' = IF limCap[c.call] = 0 THEN limiter
                  ELSE [limiter EXCEPT ![c.call] = @ - 1]
    /\ conns' = Replace(c, [c EXCEPT !.st = "exiting", !.admitted = FALSE])
    /\ UNCHANGED <<sessVars, srvVars, lnVars, loopVars, limCap, watcher, ctxCancelled, ctl,
                   histVars>>

\* The deferred srv.waitgrp.Done() ends the task.
TaskDone(c) ==
    /\ c.st \in {"exiting", "rejected"}
    /\ waitgrp' = waitgrp - 1
    /\ conns' = conns (-) SetToBag({c})
    /\ UNCHANGED <<sessVars, inShutdown, doneChan, listener, MaxConnections, lnVars,
                   loopVars, limVars, watcher, ctxCancelled, ctl, histVars>>

\* ------------------------------------------------------- specification
Next ==
    \/ \E entry \in {"Serve", "ListenAndServe"} : CallServe(entry)
    \/ \E ok \in BOOLEAN : Listen(ok)
    \/ configureDefaults
    \/ StoreListener
    \/ AcceptConn
    \/ \E kind \in {"closed", "temp", "fatal"} : AcceptError(kind)
    \/ AcceptSelect
    \/ AcceptClassify
    \/ AcceptBackoff
    \/ Spawn
    \/ \E wait \in BOOLEAN : Shutdown(wait)
    \/ ShutdownClose
    \/ Wait
    \/ WaitGroupWait
    \/ CancelCtx
    \/ \E k \in Calls : WatcherStart(k)
    \/ \E k \in Calls : WatcherClose(k)
    \/ \E k \in Calls : WatcherDone(k)
    \/ \E c \in BagToSet(conns) : TaskStart(c)
    \/ \E c \in BagToSet(conns) : ServeLine(c)
    \/ \E c \in BagToSet(conns) : HandlerReturn(c)
    \/ \E c \in BagToSet(conns) : ServeReturn(c)
    \/ \E c \in BagToSet(conns) : TaskRelease(c)
    \/ \E c \in BagToSet(conns) : TaskDone(c)

Spec == Init /\ [][Next]_vars

\* The goroutines of Serve and of its context watcher are scheduled, the timer
\* of the back-off fires, and Accept on a closed listener returns.
Fairness ==
    /\ WF_vars(configureDefaults)
    /\ WF_vars(StoreListener)
    /\ WF_vars(AcceptError("closed"))
    /\ WF_vars(AcceptSelect)
    /\ WF_vars(AcceptClassify)
    /\ WF_vars(AcceptBackoff)
    /\ WF_vars(Spawn)
    /\ \A k \in Calls : WF_vars(WatcherStart(k)) /\ WF_vars(WatcherClose(k))

FairSpec == Spec /\ Fairness

\* ------------------------------------------------- Part II: the session
\* The configurations of the server: ForceTLS needs a TLSConfig
\* (configureDefaults ends the program otherwise).
Cfgs ==
    {c \in [ForceTLS : BOOLEAN, TLSConfig : BOOLEAN, Authenticator : BOOLEAN,
            EnableXCLIENT : BOOLEAN, EnableProxyProtocol : BOOLEAN,
            Handler : BOOLEAN] : c.ForceTLS => c.TLSConfig}

\* A session after its banner, on a plain or on a TLS connection, of a server
\* without a limiter and without the PROXY protocol.
SessInit ==
    /\ SupInit
    /\ MaxConnections = -1
    /\ cfg \in {c \in Cfgs : ~c.EnableProxyProtocol}
    /\ \E isTLS \in BOOLEAN : sess = newSession(isTLS)
    /\ afterBanner

\* the verbs that are served before TLS is active when ForceTLS is set
TLSExempt == {"NOOP", "EHLO", "HELO", "STARTTLS", "QUIT", "RSET"}

\* a server that never asks for TLS; C10 fails with it
tlsNeverRequired(verb) == FALSE

\* ForceTLS is set, TLS is not active and the verb is not exempt: reply 530
tlsRequired(verb) == cfg.ForceTLS /\ ~sess.tls /\ verb \notin TLSExempt

\* a session that always counts as introduced; C9 fails with it
heloNeverMissing == FALSE

\* no HELO/EHLO has succeeded
heloMissing == ~sess.HeloName

\* a list that offers AUTH without TLS too; C14 fails with it
extensionsAuthAlways ==
    <<"SIZE", "8BITMIME", "PIPELINING">>
        \o (IF cfg.TLSConfig /\ ~sess.tls THEN <<"STARTTLS">> ELSE <<>>)
        \o (IF cfg.Authenticator THEN <<"AUTH PLAIN LOGIN">> ELSE <<>>)

\* session.extensions(): the extensions the reply to EHLO lists
extensions ==
    <<"SIZE", "8BITMIME", "PIPELINING">>
        \o (IF cfg.EnableXCLIENT THEN <<"XCLIENT">> ELSE <<>>)
        \o (IF cfg.TLSConfig /\ ~sess.tls THEN <<"STARTTLS">> ELSE <<>>)
        \o (IF cfg.Authenticator /\ sess.tls THEN <<"AUTH PLAIN LOGIN">> ELSE <<>>)

\* a reset that keeps the envelope; C18 fails with it
keepEnvelope(s) == s

\* a reset that makes the session new again; C19 fails with it
resetToNew(s) == [newSession(s.tls) EXCEPT !.addrRewritten = s.addrRewritten]

\* session.reset(): the envelope is dropped
reset(s) == [s EXCEPT !.envelope = nilEnvelope]

\* session.close(): the connection is closed.  The scanner keeps the lines it
\* holds.
close(s) == [s EXCEPT !.open = FALSE]

\* session.scanner.Scan() returns a line, one that the scanner holds already
\* or else, while the connection is open, one of those it reads from it: the
\* numbers of lines the scanner can hold afterwards.  No value when Scan
\* returns false.
Scan ==
    IF scanner > 0 THEN {scanner - 1}
    ELSE IF sess.open THEN 0..MaxPipelined ELSE {}

\* The loop of session.serve, lines 360-363: Scan returns a line and
\* session.handle is called with it; the line is not the PROXY line.  With
\* rebuilt the handler replaces the scanner by a new one.
dispatch(rebuilt) ==
    /\ at = "scan"
    /\ welcomed # "no"
    /\ Scan # {}
    /\ scanner' \in IF rebuilt THEN {0} ELSE Scan

\* The session replies code to the verb, having called the callbacks called,
\* and goes on as next.
answer(verb, code, called, next) ==
    /\ last' = [verb |-> verb, code |-> code, called |-> called]
    /\ sess' = next
    /\ UNCHANGED <<cfg, supVars, at, welcomed, errOut>>

\* A line is dispatched and answered; nothing is handed to the Handler.
respond(verb, code, called, next) ==
    /\ dispatch(FALSE)
    /\ answer(verb, code, called, next)
    /\ handed' = <<>>

\* the reply 530 to a verb that needs TLS; nothing else happens
needTLS(verb) == respond(verb, 530, {}, sess)

\* the reply 503 to a verb out of sequence; nothing else happens
badSequence(verb) == respond(verb, 503, {}, sess)

\* a rejection that drops the envelope; C16 fails with it
refusedAndReset(s) == [s EXCEPT !.envelope = nilEnvelope]

\* The session after the sender or the recipient checker turned the step
\* away: as it was.
refused(s) == s

\* HELO or EHLO: the helo checker, which closes the session when it turns the
\* name away; then HeloName is set and the envelope discarded.
handleHELO(verb, ok) ==
    /\ verb \in {"HELO", "EHLO"}
    /\ IF ~ok
       THEN respond(verb, 550, {"HeloChecker"}, close(sess))
       ELSE respond(verb, 250, {"HeloChecker"},
                    [reset(sess) EXCEPT !.HeloName = TRUE])

\* STARTTLS: with a TLSConfig, without TLS, after HELO/EHLO and outside an
\* envelope; 220 and the handshake, which fails on a closed connection.  A
\* failed handshake closes the session, a successful one replaces reader,
\* writer and scanner, sets tls and peer.TLS and resets HeloName and the
\* envelope.
handleSTARTTLS(handshake) ==
    IF ~cfg.TLSConfig \/ sess.tls \/ heloMissing \/ sess.envelope.made
    THEN badSequence("STARTTLS")
    ELSE IF ~handshake \/ ~sess.open
    THEN respond("STARTTLS", 220, {}, close(sess))
    ELSE /\ dispatch(TRUE)
         /\ answer("STARTTLS", 220, {},
                   [reset(sess) EXCEPT !.tls = TRUE, !.peerTLS = TRUE,
                                       !.HeloName = FALSE])
         /\ handed' = <<>>

\* AUTH: with TLS and an authenticator, after HELO/EHLO and outside an
\* envelope; the authenticator decides between 235 and 535.
handleAUTH(ok) ==
    IF tlsRequired("AUTH") THEN needTLS("AUTH")
    ELSE IF ~sess.tls \/ ~cfg.Authenticator \/ heloMissing
            \/ sess.envelope.made
    THEN badSequence("AUTH")
    ELSE IF ~ok
    THEN respond("AUTH", 535, {"Authenticator"}, sess)
    ELSE respond("AUTH", 235, {"Authenticator"},
                 [reset(sess) EXCEPT !.Username = TRUE])

\* MAIL FROM: after HELO/EHLO and outside an envelope; the sender checker,
\* then the envelope is made.
handleMAIL(ok) ==
    IF tlsRequired("MAIL") THEN needTLS("MAIL")
    ELSE IF heloMissing \/ sess.envelope.made THEN badSequence("MAIL")
    ELSE IF ~ok
    THEN respond("MAIL", 550, {"SenderChecker"}, refused(sess))
    ELSE respond("MAIL", 250, {"SenderChecker"},
                 [sess EXCEPT !.envelope = newEnvelope])

\* a server without a limit on the recipients; C11 fails with it
recipientsNeverFull == FALSE

\* the envelope holds MaxRecipients recipients
recipientsFull == sess.envelope.recipients >= MaxRecipients

\* RCPT TO: inside an envelope; max_recipients, the recipient checker, then
\* the recipient is appended.
handleRCPT(ok) ==
    IF tlsRequired("RCPT") THEN needTLS("RCPT")
    ELSE IF ~sess.envelope.made THEN badSequence("RCPT")
    ELSE IF recipientsFull
    THEN respond("RCPT", 552, {}, sess)
    ELSE IF ~ok
    THEN respond("RCPT", 550, {"RecipientChecker"}, refused(sess))
    ELSE respond("RCPT", 250, {"RecipientChecker"},
                 [sess EXCEPT !.envelope.recipients = @ + 1])

\* the lines a client sends as the payload of DATA, and the payloads
Lines == {"Received: by client", "text"}
Payloads == UNION {[1..n -> Lines] : n \in 0..(MaxMessageSize + 1)}

\* the Received header the session makes
Received == "Received: from HeloName by Hostname"

\* the body handed to the Handler with a second Received header; C13 fails
\* with it
bodyTwoHeaders(payload) == <<Received, Received>> \o payload

\* the body of the envelope: the Received header, then the payload
body(payload) == <<Received>> \o payload

\* session.deliver(): the invocations of the Handler with the envelope, none
\* without a Handler
deliver(env) == IF cfg.Handler THEN <<env>> ELSE <<>>

\* DATA: with a recipient; 354, the payload, 552 when it is too large, else
\* the Received header, session.deliver and 250 or the error of the Handler;
\* the envelope is discarded.
handleDATA(payload, ok) ==
    IF tlsRequired("DATA") THEN needTLS("DATA")
    ELSE IF ~sess.envelope.made THEN badSequence("DATA")
    ELSE IF sess.envelope.recipients = 0 THEN badSequence("DATA")
    ELSE IF Len(payload) > MaxMessageSize
    THEN respond("DATA", 552, {}, reset(sess))
    ELSE /\ dispatch(FALSE)
         /\ handed' = deliver([recipients |-> sess.envelope.recipients,
                               body |-> body(payload)])
         /\ answer("DATA", IF ok \/ ~cfg.Handler THEN 250 ELSE 554,
                   IF cfg.Handler THEN {"Handler"} ELSE {}, reset(sess))

\* RSET: after HELO/EHLO; the envelope is discarded.
handleRSET ==
    IF heloMissing THEN badSequence("RSET")
    ELSE respond("RSET", 250, {}, reset(sess))

\* VRFY (252), NOOP (250) and HELP (214) change nothing.
handleInfo(verb, code) ==
    /\ <<verb, code>> \in {<<"VRFY", 252>>, <<"NOOP", 250>>, <<"HELP", 214>>}
    /\ IF tlsRequired(verb) THEN needTLS(verb)
       ELSE respond(verb, code, {}, sess)

\* QUIT: 221 and the session is closed.
handleQUIT == respond("QUIT", 221, {}, close(sess))

\* XCLIENT: when enabled, after HELO/EHLO and outside an envelope; the peer
\* fields are rewritten and HeloName is reset.
handleXCLIENT ==
    IF tlsRequired("XCLIENT") THEN needTLS("XCLIENT")
    ELSE IF ~cfg.EnableXCLIENT \/ heloMissing \/ sess.envelope.made
    THEN badSequence("XCLIENT")
    ELSE respond("XCLIENT", 220, {},
                 [sess EXCEPT !.addrRewritten = TRUE, !.HeloName = FALSE])

\* A verb the session does not know: 502.
handleUnknown ==
    IF tlsRequired("OTHER") THEN needTLS("OTHER")
    ELSE respond("OTHER", 502, {}, sess)

SessNext ==
    \/ \E verb \in {"HELO", "EHLO"}, ok \in BOOLEAN : handleHELO(verb, ok)
    \/ \E handshake \in BOOLEAN : handleSTARTTLS(handshake)
    \/ \E ok \in BOOLEAN : handleAUTH(ok)
    \/ \E ok \in BOOLEAN : handleMAIL(ok)
    \/ \E ok \in BOOLEAN : handleRCPT(ok)
    \/ \E payload \in Payloads, ok \in BOOLEAN : handleDATA(payload, ok)
    \/ handleRSET
    \/ \E verb \in {"VRFY", "NOOP", "HELP"}, code \in {214, 250, 252} :
          handleInfo(verb, code)
    \/ handleQUIT
    \/ handleXCLIENT
    \/ handleUnknown

SessSpec == SessInit /\ [][SessNext]_vars

\* ------------------------------------------ Part III: session.serve
\* session.error(err), lines 422-433: the lines it writes.  errors.As finds a
\* *textproto.Error in err itself or in what err wraps, and then the text of
\* err is the line; otherwise session.reply(502, err.Error()).
sessionError(err) ==
    IF err.kind \in {"smtp", "wrapped"}
    THEN <<Error(err)>>
    ELSE <<<<"502">> \o Error(err)>>

\* session.welcome(), lines 397-408, for the session s: err is what the
\* ConnectionChecker returns, nil without one.  The reply of session.error and
\* session.close(), or the banner.
welcome(err, s) ==
    IF err # nil
    THEN /\ errOut' = [err |-> err, lines |-> sessionError(err)]
         /\ sess' = close(s)
         /\ welcomed' = "rejected"
    ELSE /\ sess' = s
         /\ welcomed' = "banner"
         /\ UNCHANGED errOut

\* session.serve up to its loop, lines 342-357: with the context cancelled
\* session.reject() and the return with the deferred session.close();
\* otherwise session.welcome unless the PROXY protocol is enabled.
sessionServe(err) ==
    /\ at = "enter"
    /\ IF ctxDone
       THEN /\ errOut' = [err |-> ErrBusy, lines |-> sessionError(ErrBusy)]
            /\ sess' = close(sess)
            /\ at' = "returned"
            /\ UNCHANGED welcomed
       ELSE /\ at' = "scan"
            /\ IF ~cfg.EnableProxyProtocol
               THEN welcome(err, sess)
               ELSE UNCHANGED <<sess, welcomed, errOut>>
    /\ UNCHANGED <<cfg, last, handed, scanner, supVars>>

\* The first line of a session with the PROXY protocol: when it parses, the
\* address of the peer is rewritten and session.welcome follows; when it does
\* not, the session is turned away and closed.
handlePROXY(ok, err) ==
    /\ at = "scan"
    /\ cfg.EnableProxyProtocol
    /\ welcomed = "no"
    /\ Scan # {}
    /\ scanner' \in Scan
    /\ IF ok
       THEN welcome(err, [sess EXCEPT !.addrRewritten = TRUE])
       ELSE /\ sess' = close(sess)
            /\ welcomed' = "badproxy"
            /\ UNCHANGED errOut
    /\ UNCHANGED <<cfg, last, handed, at, supVars>>

\* session.serve, lines 366-381: Scan stops at a line longer than the buffer
\* of the scanner (it has returned the lines before it).  The reply of
\* session.error(ErrLineTooLong), the reader is advanced past the line, a new
\* scanner is made, session.reset(), and the loop goes on.
lineTooLong ==
    /\ at = "scan"
    /\ scanner = 0
    /\ sess.open
    /\ errOut' = [err |-> ErrLineTooLong, lines |-> sessionError(ErrLineTooLong)]
    /\ scanner' = 0
    /\ sess' = reset(sess)
    /\ UNCHANGED <<cfg, last, handed, at, welcomed, supVars>>

\* session.serve, lines 360-386 and 346: Scan stops for another reason (end of
\* input, deadline, closed connection) once the scanner holds no line; serve
\* returns and its deferred session.close() runs.
scanStops ==
    /\ at = "scan"
    /\ scanner = 0
    /\ at' = "returned"
    /\ sess' = close(sess)
    /\ UNCHANGED <<cfg, last, handed, scanner, welcomed, errOut, supVars>>

\* A session that session.serve is called for, on a plain or on a TLS
\* connection, of a server without a limiter.
ConnInit ==
    /\ SupInit
    /\ MaxConnections = -1
    /\ cfg \in Cfgs
    /\ \E isTLS \in BOOLEAN : sess = newSession(isTLS)
    /\ last = NoCmd
    /\ handed = <<>>
    /\ at = "enter"
    /\ scanner = 0
    /\ welcomed = "no"
    /\ errOut = NoErrOut

ConnNext ==
    \/ SessNext
    \/ CancelCtx
    \/ \E err \in Errors \cup {nil} : sessionServe(err)
    \/ \E ok \in BOOLEAN, err \in Errors \cup {nil} : handlePROXY(ok, err)
    \/ lineTooLong
    \/ scanStops

ConnSpec == ConnInit /\ [][ConnNext]_vars

\* ------------------------------------------------------------ properties
\* a call of Shutdown has returned and nothing was called after it by the same
\* goroutine
ShutdownHasReturned ==
    \/ ctl.pc = "ret" /\ ctl.op = "Shutdown"
    \/ \E k \in Calls : watcher[k] = "ret"

\* the same for a call of Shutdown(true)
ShutdownTrueHasReturned ==
    \/ ctl.pc = "ret" /\ ctl.op = "Shutdown" /\ ctl.wait
    \/ \E k \in Calls : watcher[k] = "ret"

C2_BusyNotQueued ==
    \A c \in BagToSet(conns) :
        /\ c.st = "start" => ENABLED TaskStart(c)
        /\ c.st = "rejected" => c.ev = {"421"} /\ c.closed /\ ~c.admitted

\* a connection was turned away while every slot is held by a session
C2_Rejected ==
    \E c \in BagToSet(conns) :
        /\ c.st = "rejected"
        /\ limCap[c.call] > 0
        /\ NumIn(c.call, {"loop", "handler"}) = limCap[c.call]

\* C3: once a call of Shutdown has returned, no Accept of a Serve on the
\* server succeeds.
C3_NoAcceptAfterShutdown ==
    [][ShutdownHasReturned => ~(spc = "accept" /\ spc' = "spawn")]_vars

\* C4: when Shutdown(true) has returned, with every listener closed, there is
\* no connection whose task is running or still to be started.
C4_NoTaskAfterShutdownWait ==
    (ShutdownTrueHasReturned /\ \A k \in 1..ncall : lnClosed(k))
        => conns = EmptyBag

C6_ShutdownIdempotent ==
    /\ \A k \in Calls : lnCloses[k] <= 1
    /\ doneCloses <= 1
    /\ sdResults \subseteq {"nil"}
    /\ (ctl.op = "Shutdown" /\ ctl.pc = "ret") => ctl.res = "nil"

\* two calls of Shutdown have returned, and the listener and the done channel
\* are closed
C6_TwoShutdowns ==
    /\ ctl.op = "Shutdown" /\ ctl.pc = "ret"
    /\ \E k \in Calls : watcher[k] = "ret" /\ lnCloses[k] = 1
    /\ doneCloses = 1

\* C7: the in-shutdown flag is never cleared, and a call of Serve or
\* ListenAndServe made while it is set returns ErrServerClosed at once:
\* the defaults, srv.listener, the listeners and the connections are as before.
C7_ServeRefusedAfterShutdown ==
    [][/\ inShutdown => inShutdown'
       /\ (inShutdown /\ spc \in {"idle", "ret"}) =>
              /\ spc' \in {spc, "ret"}
              /\ spc' # spc => sres' = "ErrServerClosed"
              /\ sres' \in {sres, "ErrServerClosed"}
              /\ UNCHANGED <<MaxConnections, listener, ncall, limCap>>
              /\ BagCardinality(conns') <= BagCardinality(conns)]_vars

\* Serve was called on a server that was shut down before it ever served
C7_RefusedBeforeAnyServe ==
    /\ inShutdown
    /\ spc = "ret" /\ sres = "ErrServerClosed"
    /\ ncall = 0 /\ listener = 0

\* C8: a Wait called while the in-shutdown flag is not set returns its error at
\* once and changes nothing of the server; a Wait that waits returns nil, in
\* shutdown and when no connection task that was registered is left.
C8_WaitContract ==
    [][/\ (ctl.pc \in {"idle", "ret"} /\ ctl' # ctl /\ ctl'.op = "Wait"
            /\ ~inShutdown) =>
              /\ ctl'.pc = "ret" /\ ctl'.res = "ErrNotShutdown"
              /\ UNCHANGED <<srvVars, lnVars, limVars, conns, doneCloses>>
       /\ (ctl.op = "Wait" /\ ctl.pc = "wgwait" /\ ctl'.pc = "ret") =>
              /\ ctl'.res = "nil"
              /\ inShutdown
              /\ \A c \in BagToSet(conns) : c.st = "accepted"]_vars

\* a Wait before any Shutdown returned its error, with a session open
C8_WaitRefused ==
    /\ ctl.pc = "ret" /\ ctl.op = "Wait" /\ ctl.res = "ErrNotShutdown"
    /\ ~inShutdown
    /\ conns # EmptyBag

\* a command that was turned away left the session as it was and called no
\* checker, authenticator or handler
NoEffect == sess' = sess /\ last'.called = {}

\* the command of this step is out of sequence: MAIL FROM before HELO/EHLO,
\* RCPT TO outside an envelope, DATA without a recipient
OutOfSequence ==
    /\ sess.open
    /\ \/ last'.verb = "MAIL" /\ ~sess.HeloName
       \/ last'.verb = "RCPT" /\ ~sess.envelope.made
       \/ last'.verb = "DATA" /\ (~sess.envelope.made \/ sess.envelope.recipients = 0)

Handed == {handed[i] : i \in 1..Len(handed)}

\* this step is a RCPT TO for an envelope that holds MaxRecipients recipients
RcptWhenFull ==
    /\ last'.verb = "RCPT"
    /\ sess.envelope.made
    /\ sess.envelope.recipients >= MaxRecipients

HandshakeFailed == last.verb = "STARTTLS" /\ last.code = 220 /\ ~sess.tls

\* C12: a STARTTLS whose handshake succeeds leaves the session with tls set,
\* peer.TLS populated, no HeloName and no envelope, and MAIL FROM is replied
\* 503 while HeloName is not set again; after a STARTTLS whose handshake failed
\* the session is closed and no further line is dispatched.
C12_StartTLSResets ==
    [][/\ (last'.verb = "STARTTLS" /\ last'.code = 220 /\ sess'.tls) =>
              /\ sess'.peerTLS
              /\ ~sess'.HeloName
              /\ ~sess'.envelope.made
       /\ (last'.verb = "MAIL" /\ sess.tls /\ ~sess.HeloName) =>
              last'.code = 503 /\ NoEffect
       /\ HandshakeFailed => ~sess.open /\ scanner' = scanner]_vars

\* the lines of a body that follow its first
Payload(b) == {b[i] : i \in 2..Len(b)}

\* C13 as stated: a DATA replied 250 is one invocation of the Handler, with a
\* body that starts with the one Received header the session makes, followed
\* by the payload; a DATA replied 503 or 552 is no invocation.
C13_ExactlyOneDelivery ==
    [][last'.verb = "DATA" =>
          /\ last'.code = 250 => Len(handed') = 1
          /\ \A i \in 1..Len(handed') :
                /\ Head(handed'[i].body) = Received
                /\ Received \notin Payload(handed'[i].body)
          /\ last'.code \in {503, 552} => handed' = <<>>]_vars

\* C13: on a server with a Handler a DATA replied 250 is one invocation of it,
\* on a server without one it is none; the envelope handed over has the
\* recipients of the session's envelope and a body that starts with the one
\* Received header the session makes, followed by the payload; a DATA that is
\* turned away (503, 530 or 552) is no invocation.
C13_OneDeliveryWithHandler ==
    [][last'.verb = "DATA" =>
          /\ last'.code = 250 => Len(handed') = IF cfg.Handler THEN 1 ELSE 0
          /\ \A i \in 1..Len(handed') :
                /\ Head(handed'[i].body) = Received
                /\ Received \notin Payload(handed'[i].body)
                /\ Len(handed'[i].body) <= MaxMessageSize + 1
                /\ handed'[i].recipients = sess.envelope.recipients
                /\ last'.called = {"Handler"}
          /\ last'.code \in {503, 530, 552} =>
                handed' = <<>> /\ last'.called = {}]_vars

\* a DATA was replied 250 and the Handler got the Received header of the
\* session in front of a payload that has a Received line of its own
C13_HandedWithHeader ==
    /\ last.verb = "DATA" /\ last.code = 250
    /\ Len(handed) = 1
    /\ handed[1].body = <<Received, "Received: by client", "text">>

\* the extension e is in the list of the reply to EHLO
Offered(e) == \E i \in 1..Len(extensions) : extensions[i] = e

\* C14: the list of the reply to EHLO has STARTTLS exactly when the server has
\* a TLSConfig and TLS is not active, and AUTH PLAIN LOGIN exactly when it has
\* an Authenticator and TLS is active, so never both; an AUTH without TLS or
\* without an Authenticator does not call the Authenticator and leaves
\* Username as it is.
C14_ExtensionsAndAuth ==
    /\ [](/\ Offered("STARTTLS") <=> (cfg.TLSConfig /\ ~sess.tls)
          /\ Offered("AUTH PLAIN LOGIN") <=> (cfg.Authenticator /\ sess.tls)
          /\ ~(Offered("STARTTLS") /\ Offered("AUTH PLAIN LOGIN")))
    /\ [][(last'.verb = "AUTH" /\ (~sess.tls \/ ~cfg.Authenticator)) =>
             /\ "Authenticator" \notin last'.called
             /\ last'.code \in {503, 530}
             /\ sess'.Username = sess.Username]_vars

\* on a server with TLSConfig and Authenticator an AUTH after EHLO and before
\* STARTTLS was turned away, and the list offers STARTTLS and not AUTH
C14_AuthBeforeTLS ==
    /\ cfg.TLSConfig /\ cfg.Authenticator
    /\ sess.HeloName /\ ~sess.tls
    /\ last.verb = "AUTH" /\ last.code \in {503, 530}
    /\ ~sess.Username
    /\ Offered("STARTTLS") /\ ~Offered("AUTH PLAIN LOGIN")

\* the one reply line "code text"
ReplyLine(code, text) == <<<<ToString(code)>> \o text>>

\* C15: for the error of the last call of session.error, the session wrote
\* one line: code and message of the error when it is an SMTP error, 502 and
\* the text of the error otherwise.  An error that wraps an SMTP error may
\* count as either.
C15_ErrorReplyMapping ==
    LET err == errOut.err
    IN  /\ err.kind = "smtp" => errOut.lines = ReplyLine(err.code, <<err.msg>>)
        /\ err.kind = "plain" => errOut.lines = ReplyLine(502, Error(err))
        /\ err.kind = "wrapped" =>
               \/ errOut.lines = ReplyLine(err.code, <<err.msg>>)
               \/ errOut.lines = ReplyLine(502, Error(err))

\* the last command was turned away by the checker named, and the session
\* can dispatch a further line
Refused(checker) ==
    /\ last.called = {checker}
    /\ last.code # 250
    /\ Scan # {}

\* C16: a MAIL FROM that the sender checker turns away makes no envelope, and
\* a RCPT TO that the recipient checker turns away leaves the envelope as it
\* is; the reply is the error, the session is as before, and the same command
\* with an address the checker lets pass is accepted from that state.
C16_CheckerRejection ==
    /\ [][/\ (last'.called = {"SenderChecker"} /\ last'.code # 250) =>
                /\ last'.verb = "MAIL" /\ last'.code >= 400
                /\ ~sess'.envelope.made
                /\ sess' = sess
          /\ (last'.called = {"RecipientChecker"} /\ last'.code # 250) =>
                /\ last'.verb = "RCPT" /\ last'.code >= 400
                /\ sess' = sess]_vars
    /\ [](Refused("SenderChecker") =>
             ENABLED (handleMAIL(TRUE) /\ last'.code = 250
                        /\ sess'.envelope = newEnvelope))
    /\ [](Refused("RecipientChecker") =>
             ENABLED (handleRCPT(TRUE) /\ last'.code = 250
                        /\ sess'.envelope.recipients
                             = sess.envelope.recipients + 1))

\* the recipient checker turned a RCPT TO away in a session whose envelope
\* holds a recipient, and the session is open
C16_SecondRcptRefused ==
    /\ Refused("RecipientChecker")
    /\ sess.open
    /\ sess.envelope.made /\ sess.envelope.recipients = 1

\* C17: once the connection checker has turned the connection away, its error
\* reply was written and the connection is closed, the banner is not sent,
\* and no line of the connection is dispatched: the scanner hands out no
\* line, and no checker, authenticator or handler is called.
C17_RejectedConnection ==
    /\ [](welcomed = "rejected" =>
             /\ errOut.err \in Errors
             /\ Len(errOut.lines) = 1
             /\ ~sess.open)
    /\ [][welcomed = "rejected" =>
             /\ welcomed' = "rejected"
             /\ scanner' = scanner
             /\ last' = last
             /\ handed' = handed]_vars

\* this step is one of those that discard the envelope: EHLO/HELO, STARTTLS
\* and AUTH that succeed, RSET, and a DATA that got as far as its payload
Discards ==
    \/ last'.verb \in {"HELO", "EHLO", "RSET"} /\ last'.code = 250
    \/ last'.verb = "STARTTLS" /\ last'.code = 220 /\ sess'.tls
    \/ last'.verb = "AUTH" /\ last'.code = 235
    \/ last'.verb = "DATA" /\ last'.code \in {250, 552, 554}

\* the reply to a verb that is out of sequence, when ordered is the reply
\* without ForceTLS
OutOfSequenceCode(forced) == IF forced /\ cfg.ForceTLS /\ ~sess.tls THEN 530 ELSE 503

\* The steps of C18, where tlsAware tells whether the 530 of ForceTLS is taken
\* into account: the steps that discard leave no envelope, a MAIL FROM inside
\* an envelope and a RCPT TO or DATA without one are turned away.
DiscardSteps(tlsAware) ==
    /\ Discards => sess'.envelope = nilEnvelope
    /\ (sess.envelope.made /\ last'.verb = "MAIL") =>
          /\ last'.code = OutOfSequenceCode(tlsAware)
          /\ sess' = sess
    /\ (~sess.envelope.made /\ last'.verb \in {"RCPT", "DATA"}) =>
          /\ last'.code = OutOfSequenceCode(tlsAware)
          /\ sess' = sess

\* The states of C18: without an envelope and with HeloName a MAIL FROM is
\* accepted.
MailAccepted(tlsAware) ==
    (/\ ~sess.envelope.made
     /\ sess.HeloName
     /\ Scan # {}
     /\ tlsAware => ~(cfg.ForceTLS /\ ~sess.tls)) =>
        ENABLED (handleMAIL(TRUE) /\ last'.code = 250
                   /\ sess'.envelope = newEnvelope)

NextLineDispatched ==
    IF welcomed = "no"
    THEN ENABLED (\E ok \in BOOLEAN : handlePROXY(ok, nil))
    ELSE ENABLED (handleInfo("NOOP", 250) /\ last'.verb = "NOOP")

\* C19: when Scan stops at a line that is too long, the reply is the 500 of
\* ErrLineTooLong, the envelope is dropped, HeloName, the TLS flags and the
\* authenticated identity stay as they were, the line is not dispatched
\* (no verb is answered, nothing is handed to the Handler), and the session
\* goes on: it is still at Scan on an open connection, and there the line that
\* follows can be dispatched.
C19_LineTooLongRecovery ==
    /\ [][lineTooLong =>
             /\ errOut'.lines = <<<<"500", "line too long">>>>
             /\ sess'.envelope = nilEnvelope
             /\ sess'.HeloName = sess.HeloName
             /\ sess'.tls = sess.tls /\ sess'.peerTLS = sess.peerTLS
             /\ sess'.Username = sess.Username
             /\ last' = last
             /\ handed' = handed
             /\ at' = "scan" /\ sess'.open /\ scanner' = 0]_vars
    /\ []((at = "scan" /\ sess.open /\ scanner = 0) => NextLineDispatched)

\* the last reply of the session is the 500 of a line too long that came
\* after an accepted RCPT TO: the envelope is gone, HeloName is kept, the
\* connection is open
C19_EnvelopeDroppedByLongLine ==
    /\ errOut.err = ErrLineTooLong
    /\ last.verb = "RCPT" /\ last.code = 250
    /\ sess.envelope = nilEnvelope
    /\ sess.HeloName
    /\ sess.open /\ at = "scan"

\* Serve is running: past its shuttingDown check and not returned
Running ==
    spc \in {"defaults", "store", "accept", "accerr", "classify", "backoff", "spawn"}

\* Serve is past the first select with an error of Accept that is not
\* transient: it returns that error
ReturningAcceptError == spc = "classify" /\ serr # "temp"

\* Shutdown(true) was called by a goroutine that waited for ctx.Done()
ShutdownTriggered ==
    inShutdown /\ \E k \in Calls : watcher[k] \in {"lock", "wgwait", "ret"}

\* this step is not the return of a Serve whose context is cancelled, or it is
\* and the result is one of results
ReturnsWith(results) == (ctxCancelled /\ spc' = "ret") => sres' \in results

\* Without shutdown and cancellation a transient error of Accept goes from the
\* first select to the back-off, and from the back-off to Accept again.
TransientRetried ==
    /\ (spc = "accerr" /\ serr = "temp" /\ ~ctxCancelled /\ ~inShutdown)
           => spc' \in {"accerr", "classify"}
    /\ (spc = "classify" /\ serr = "temp") => spc' \in {"classify", "backoff"}
    /\ (spc = "backoff" /\ ~ctxCancelled) => spc' \in {"backoff", "accept"}

\* C20 as stated: once the base context of a running Serve is cancelled,
\* Shutdown(true) gets triggered and Serve returns, with ErrServerClosed or
\* with the error of the context; a transient error of Accept is retried.
C20_CancelReturnsClosedOrCtx ==
    /\ (ctxCancelled /\ Running) ~> ShutdownTriggered
    /\ (ctxCancelled /\ Running) ~> (spc = "ret")
    /\ [][Running => ReturnsWith({"ErrServerClosed", "ctxErr"})]_vars
    /\ [][TransientRetried]_vars

\* C20: the same, where a Serve that is past its first select with an error of
\* Accept that is not transient returns that error.
C20_CancelReturns ==
    /\ (ctxCancelled /\ Running) ~> ShutdownTriggered
    /\ (ctxCancelled /\ Running) ~> (spc = "ret")
    /\ [][(Running /\ ~ReturningAcceptError)
             => ReturnsWith({"ErrServerClosed", "ctxErr"})]_vars
    /\ [][ReturningAcceptError => ReturnsWith({"acceptErr"})]_vars
    /\ [][TransientRetried]_vars

\* Serve has returned the error of the context while the Shutdown(true) that
\* the cancellation triggered has not closed the listener yet: the error of
\* Accept before the return was not that of a closed listener
C20_ReturnedBeforeListenerClosed ==
    /\ ctxCancelled
    /\ spc = "ret" /\ sres = "ctxErr"
    /\ cancelAt = "ctxErr"
    /\ \E k \in Calls : watcher[k] = "lock"

\* the slots of the limiter of Serve call k that are held
Held(k) == limiter[k]

\* The steps of C21 for the limiter of call k: the task of a connection that
\* is turned away sends nothing on the limiter and receives nothing from it;
\* a receive from the limiter frees one slot and is the step after
\* session.serve of one task, which is then about to end; and every task
\* that gets there has freed one slot.
SlotSteps(k) ==
    /\ NumIn(k, {"rejected"})' # NumIn(k, {"rejected"}) => Held(k)' = Held(k)
    /\ Held(k)' < Held(k) =>
          /\ Held(k)' = Held(k) - 1
          /\ NumIn(k, {"returned"})' = NumIn(k, {"returned"}) - 1
          /\ NumIn(k, {"exiting"})' = NumIn(k, {"exiting"}) + 1
    /\ NumIn(k, {"exiting"})' > NumIn(k, {"exiting"}) => Held(k)' = Held(k) - 1
    /\ NumIn(k, {"exiting"})' < NumIn(k, {"exiting"}) => Held(k)' = Held(k)

\* The states of C21 for the limiter of call k: a connection that was turned
\* away holds no slot, and when no task is between its send on the limiter
\* and its receive from it every slot is free and the task of the next
\* connection is admitted.
SlotsFreeAtEnd(k) ==
    /\ \A c \in BagToSet(conns) : c.st = "rejected" => ~c.admitted
    /\ NumIn(k, {"loop", "handler", "returned"}) = 0 =>
          /\ Held(k) = 0
          /\ \A c \in BagToSet(conns) :
                (c.call = k /\ c.st = "start") =>
                    ENABLED (TaskStart(c) /\ Held(k)' = 1)

\* C21 as stated: the slots held are as many as the admitted tasks that have
\* not returned from session.serve; a connection turned away never holds or
\* releases a slot, an admitted session releases exactly one slot when it
\* ends, and when all sessions have ended all slots are free and the next
\* connection is admitted.
C21_SlotsEqualSessionsInServe ==
    /\ [](\A k \in Calls : limCap[k] > 0 =>
              /\ Held(k) = NumIn(k, {"loop", "handler"})
              /\ SlotsFreeAtEnd(k))
    /\ [][\A k \in Calls : limCap[k] > 0 => SlotSteps(k)]_vars

\* C21: the same, where the slots held are as many as the tasks between their
\* send on the limiter and their receive from it, those that have returned
\* from session.serve and not received yet among them.
C21_SlotsEqualTasksBeforeRelease ==
    /\ [](\A k \in Calls : limCap[k] > 0 =>
              /\ Held(k) = NumIn(k, {"loop", "handler", "returned"})
              /\ Held(k) <= limCap[k]
              /\ SlotsFreeAtEnd(k))
    /\ [][\A k \in Calls : limCap[k] > 0 => SlotSteps(k)]_vars

\* a session that was admitted has ended and freed the only slot, and the
\* task of the next connection is about to start
C21_SlotFreedForNext ==
    \E k \in Calls :
        /\ limCap[k] = 1
        /\ Held(k) = 0
        /\ NumIn(k, {"exiting"}) = 1
        /\ NumIn(k, {"start"}) = 1

\* the task of connection c takes its first step and connection d is what it
\* makes of c
Started(c, d) ==
    /\ c.st = "start"
    /\ conns[c] > 0
    /\ d.st # "start"
    /\ conns' = Replace(c, d)

\* C22: a task whose session.serve starts with the context cancelled replies
\* 421 and nothing else (no banner with its connection checker, no command
\* dispatched: the session is never in its loop), and the connection is
\* closed; and on each path of a task, admitted, turned away as busy or
\* turned away for the context, the connection is closed when the task
\* calls Done on the wait group.
C22_CancelledSessionTurnedAway ==
    /\ [][\A c \in BagToSet(conns) :
             \A d \in BagToSet(conns') :
                (ctxCancelled /\ Started(c, d)) =>
                    /\ d.ev = {"421"}
                    /\ d.closed
                    /\ d.st \in {"returned", "rejected"}]_vars
    /\ [](\A c \in BagToSet(conns) :
             /\ "421" \in c.ev =>
                   c.ev = {"421"} /\ c.closed /\ c.st \notin {"loop", "handler"}
             /\ c.st \in {"returned", "exiting", "rejected"} => c.closed)
    /\ [][waitgrp' < waitgrp =>
             \E c \in BagToSet(conns) :
                 /\ conns' = conns (-) SetToBag({c})
                 /\ c.closed]_vars

\* a session that was admitted by the limiter with the context cancelled: it
\* was replied 421 and closed, and its task has not called Done yet
C22_AdmittedThenTurnedAway ==
    /\ ctxCancelled
    /\ \E c \in BagToSet(conns) :
          /\ limCap[c.call] > 0
          /\ c.st = "exiting"
          /\ c.ev = {"421"}
          /\ c.closed
    /\ waitgrp > 0

====
